---- MODULE Spec2Model ----
(***************************************************************************)
(* Model of src/nodes.py: the ConstrainResolution node.                    *)
(*                                                                         *)
(* The node is stateless; one behaviour of the model is one use of the     *)
(* node: the host draws the inputs, calls validate_inputs, and, when that  *)
(* returns True, calls execute.  crop_image, a public static method, is    *)
(* also called on its own.  An image is modelled by its shape (width and   *)
(* height); batch, channels and pixel values play no part in any           *)
(* dimension the code computes.                                            *)
(*                                                                         *)
(* Python's float is IEEE-754 binary64 and the code truncates floats with  *)
(* int(), so the last bit of a quotient decides results.  The arithmetic   *)
(* is therefore modelled bit for bit: a float is a 53-bit mantissa and an  *)
(* exponent, every operation rounds to nearest, ties to even.  Mantissas   *)
(* do not fit TLC's 32-bit integers and are kept as sequences of limbs.    *)
(***************************************************************************)
EXTENDS Integers, Sequences, FiniteSets, TLC

(***************************************************************************)
(* Bounds of the model.                                                    *)
(***************************************************************************)
MaxDim == 5
MaxRes == 7
MaxMultiple == 3

(***************************************************************************)
(* Natural numbers of any size: little-endian sequences of limbs, no       *)
(* leading zero limb, <<>> is 0.                                           *)
(***************************************************************************)
LimbBase == 2^14

RECURSIVE BigNorm(_)
BigNorm(a) ==
    IF a = <<>> THEN a
    ELSE IF a[Len(a)] = 0 THEN BigNorm(SubSeq(a, 1, Len(a) - 1))
    ELSE a

RECURSIVE BigFromInt(_)
BigFromInt(n) ==
    IF n = 0 THEN <<>>
    ELSE <<n % LimbBase>> \o BigFromInt(n \div LimbBase)

RECURSIVE BigToInt(_)
BigToInt(a) ==
    IF a = <<>> THEN 0
    ELSE Head(a) + LimbBase * BigToInt(Tail(a))

RECURSIVE BigAddC(_, _, _)
BigAddC(a, b, c) ==
    IF a = <<>> /\ b = <<>>
    THEN (IF c = 0 THEN <<>> ELSE <<c>>)
    ELSE LET x == (IF a = <<>> THEN 0 ELSE Head(a))
                  + (IF b = <<>> THEN 0 ELSE Head(b)) + c
         IN  <<x % LimbBase>>
             \o BigAddC(IF a = <<>> THEN a ELSE Tail(a),
                        IF b = <<>> THEN b ELSE Tail(b),
                        x \div LimbBase)

BigAdd(a, b) == BigAddC(a, b, 0)

RECURSIVE BigSubB(_, _, _)
BigSubB(a, b, br) ==
    IF a = <<>> THEN <<>>
    ELSE LET x == Head(a) - (IF b = <<>> THEN 0 ELSE Head(b)) - br
         IN  <<(x + LimbBase) % LimbBase>>
             \o BigSubB(Tail(a), IF b = <<>> THEN b ELSE Tail(b),
                        IF x < 0 THEN 1 ELSE 0)

\* a - b, for a >= b
BigSub(a, b) == BigNorm(BigSubB(a, b, 0))

RECURSIVE BigCmpAt(_, _, _)
BigCmpAt(a, b, i) ==
    IF i = 0 THEN 0
    ELSE IF a[i] < b[i] THEN -1
    ELSE IF a[i] > b[i] THEN 1
    ELSE BigCmpAt(a, b, i - 1)

\* -1, 0 or 1 as a < b, a = b or a > b
BigCmp(a, b) ==
    IF Len(a) < Len(b) THEN -1
    ELSE IF Len(a) > Len(b) THEN 1
    ELSE BigCmpAt(a, b, Len(a))

RECURSIVE BigMulSmallC(_, _, _)
BigMulSmallC(a, k, c) ==
    IF a = <<>> THEN (IF c = 0 THEN <<>> ELSE <<c>>)
    ELSE LET x == Head(a) * k + c
         IN  <<x % LimbBase>> \o BigMulSmallC(Tail(a), k, x \div LimbBase)

\* a * k, for 0 <= k < LimbBase
BigMulSmall(a, k) == IF k = 0 THEN <<>> ELSE BigMulSmallC(a, k, 0)

RECURSIVE BigMulU(_, _)
BigMulU(a, b) ==
    IF b = <<>> \/ a = <<>> THEN <<>>
    ELSE BigAdd(BigMulSmall(a, Head(b)), <<0>> \o BigMulU(a, Tail(b)))

BigMul(a, b) == BigNorm(BigMulU(a, b))

RECURSIVE BitLen(_)
BitLen(n) == IF n = 0 THEN 0 ELSE 1 + BitLen(n \div 2)

LimbBits == BitLen(LimbBase) - 1

BigBitLen(a) ==
    IF a = <<>> THEN 0
    ELSE LimbBits * (Len(a) - 1) + BitLen(a[Len(a)])

\* a * 2^k
BigShl(a, k) ==
    IF a = <<>> THEN a
    ELSE [i \in 1..(k \div LimbBits) |-> 0]
         \o BigMulSmall(a, 2^(k % LimbBits))

\* floor(a / 2^k)
BigShr(a, k) ==
    LET q == k \div LimbBits
        r == k % LimbBits
        b == IF q >= Len(a) THEN <<>> ELSE SubSeq(a, q + 1, Len(a))
    IN  BigNorm([i \in 1..Len(b) |->
                   (b[i] \div 2^r)
                   + (IF i < Len(b) THEN (b[i + 1] % 2^r) * 2^(LimbBits - r)
                      ELSE 0)])

(***************************************************************************)
(* Python float: IEEE-754 binary64.  A float is 0 (FZero) or m * 2^e with  *)
(* m a Precision-bit mantissa (top bit set).  Every value the node         *)
(* computes is >= 0 and far inside the exponent range, so sign, infinities,*)
(* NaN and subnormals do not arise.                                        *)
(***************************************************************************)
Precision == 53

FZero == [m |-> <<>>, e |-> 0]

\* Max / Min of two ints, as Python's max(a, b) / min(a, b)
Max(a, b) == IF b > a THEN b ELSE a
Min(a, b) == IF b < a THEN b ELSE a

\* q * 2^e, q of Precision or Precision + 1 bits (a carry out of rounding up)
FPack(q, e) ==
    IF BigBitLen(q) > Precision THEN [m |-> BigShr(q, 1), e |-> e + 1]
    ELSE [m |-> q, e |-> e]

\* Is q rounded up?  c compares the bits cut off with half of the last place.
FRoundsUp(q, c, sticky) == c > 0 \/ (c = 0 /\ (sticky \/ q[1] % 2 = 1))

\* n of more than Precision bits: q its top Precision bits, d bits are cut off
FRoundCut(n, q, d, e, sticky) ==
    FPack(IF FRoundsUp(q, BigCmp(BigSub(n, BigShl(q, d)),
                                 BigShl(<<1>>, d - 1)), sticky)
          THEN BigAdd(q, <<1>>) ELSE q,
          e + d)

\* n of L bits
FRoundBits(n, L, e, sticky) ==
    IF L <= Precision
    THEN [m |-> BigShl(n, Precision - L), e |-> e - (Precision - L)]
    ELSE FRoundCut(n, BigShr(n, L - Precision), L - Precision, e, sticky)

\* n * 2^e (plus, when sticky, a nonzero amount below the last bit of n)
\* rounded to the nearest float, ties to even.
FRound(n, e, sticky) ==
    IF n = <<>> THEN FZero ELSE FRoundBits(n, BigBitLen(n), e, sticky)

\* float(n) for an int n >= 0 (exact below 2^53)
FromInt(n) == FRound(BigFromInt(n), 0, FALSE)

\* x * y
FMul(x, y) == FRound(BigMul(x.m, y.m), x.e + y.e, FALSE)

RECURSIVE DivDigit(_, _, _)
\* The largest digit q <= qhat with d * q <= r.
DivDigit(r, d, qhat) ==
    IF BigCmp(BigMulSmall(d, qhat), r) > 0 THEN DivDigit(r, d, qhat - 1)
    ELSE qhat

\* The estimate of the next digit of r / d, from the top limbs
DivEstimate(r, d) ==
    (IF Len(r) > Len(d) THEN r[Len(d) + 1] * LimbBase + r[Len(d)]
     ELSE IF Len(r) = Len(d) THEN r[Len(d)] ELSE 0) \div d[Len(d)]

RECURSIVE DivLimbs(_, _, _, _)

DivSubtract(r, d, q, k, digit) ==
    DivLimbs(BigSub(r, BigMulSmall(d, digit)), d, <<digit>> \o q, k - 1)

DivStep(r, d, q, k) ==
    DivSubtract(r, d, q, k,
                DivDigit(r, d, Min(DivEstimate(r, d), LimbBase - 1)))

\* Long division: k more limbs of the quotient of r by d (r < d, the top limb
\* of d at least LimbBase / 2), put below q: <<quotient, remainder>>.  Each
\* digit is estimated from the top limbs and corrected downwards.
DivLimbs(r, d, q, k) ==
    IF k = 0 THEN <<BigNorm(q), r>>
    ELSE DivStep(IF r = <<>> THEN r ELSE <<0>> \o r, d, q, k)

\* Limbs of quotient computed below the binary point of m_x / m_y: at least
\* two bits more than the mantissa holds.
QuotientLimbs == (Precision + 2 + LimbBits - 1) \div LimbBits

FDivRound(qr, e) ==
    FRound(qr[1], e - LimbBits * QuotientLimbs, qr[2] # <<>>)

\* a / d * 2^e, the top limb of d at least LimbBase / 2, a < 2 * d
FDivLong(a, d, e) ==
    FDivRound(IF BigCmp(a, d) >= 0
              THEN DivLimbs(BigSub(a, d), d, <<1>>, QuotientLimbs)
              ELSE DivLimbs(a, d, <<>>, QuotientLimbs),
              e)

FDivShift(x, y, s) == FDivLong(BigShl(x.m, s), BigShl(y.m, s), x.e - y.e)

\* x / y, for y # 0
FDiv(x, y) ==
    IF x.m = <<>> THEN FZero
    ELSE FDivShift(x, y, LimbBits * Len(y.m) - BigBitLen(y.m))

\* abs(a - b) * 2^e
FAbsDiffAligned(a, b, e) ==
    IF BigCmp(a, b) >= 0 THEN FRound(BigSub(a, b), e, FALSE)
    ELSE FRound(BigSub(b, a), e, FALSE)

\* abs(x - y)
FAbsDiff(x, y) ==
    IF x.m = <<>> THEN y
    ELSE IF y.m = <<>> THEN x
    ELSE FAbsDiffAligned(BigShl(x.m, x.e - Min(x.e, y.e)),
                         BigShl(y.m, y.e - Min(x.e, y.e)), Min(x.e, y.e))

\* x < y
FLess(x, y) ==
    IF y.m = <<>> THEN FALSE
    ELSE IF x.m = <<>> THEN TRUE
    ELSE IF x.e # y.e THEN x.e < y.e
    ELSE BigCmp(x.m, y.m) < 0

\* max(x, y) as Python computes it: y when y > x, else x
FMax(x, y) == IF FLess(x, y) THEN y ELSE x

\* int(x), for x >= 0: truncation
FInt(x) ==
    IF x.e >= 0 THEN BigToInt(BigShl(x.m, x.e))
    ELSE BigToInt(BigShr(x.m, -x.e))

\* The int nearest to x, ties to the even one: f is int(x), twice is 2 * x
\* and mid is 2 * f + 1
NearestEven(f, twice, mid) ==
    IF FLess(twice, mid) THEN f
    ELSE IF FLess(mid, twice) THEN f + 1
    ELSE IF f % 2 = 0 THEN f ELSE f + 1

\* round(x), for x >= 0
PyRound(x) ==
    NearestEven(FInt(x), FMul(x, FromInt(2)), FromInt(2 * FInt(x) + 1))

\* The decimal digits round(x, ndigits) keeps: 10^4
Decimals == 10^4

\* f + 1 or f: c compares the fraction dropped with one half
RoundHalfEven(f, c) ==
    IF c > 0 \/ (c = 0 /\ f # <<>> /\ f[1] % 2 = 1) THEN BigAdd(f, <<1>>)
    ELSE f

\* The integer nearest to n / 2^k, ties to the even one; f is floor(n / 2^k)
RoundShift(n, f, k) ==
    RoundHalfEven(f, BigCmp(BigSub(n, BigShl(f, k)), BigShl(<<1>>, k - 1)))

\* The integer nearest to n * 2^e
RoundScaled(n, e) ==
    IF e >= 0 THEN BigShl(n, e) ELSE RoundShift(n, BigShr(n, -e), -e)

\* round(x, 4), for x >= 0: the float nearest to the 4-decimal number nearest
\* to the exact value of x (ties to the even last digit).
PyRound4(x) ==
    IF x.m = <<>> THEN FZero
    ELSE FDiv(FRound(RoundScaled(BigMulSmall(x.m, Decimals), x.e), 0, FALSE),
              FromInt(Decimals))

(***************************************************************************)
(* The enums                                                               *)
(***************************************************************************)
MIN_RES        == "Prioritize Min Resolution"
MAX_RES_STRICT == "Prioritize Max Resolution (Strict)"
ConstraintMode == {MIN_RES, MAX_RES_STRICT}

CENTER == "center"
TOP    == "top"
BOTTOM == "bottom"
LEFT   == "left"
RIGHT  == "right"
CropPosition == {CENTER, TOP, BOTTOM, LEFT, RIGHT}

(***************************************************************************)
(* The node's functions                                                    *)
(***************************************************************************)

\* validate_inputs without its last test (a faulty variant)
validate_inputs_no_min_res(mn, mx, m) ==
    IF mx < mn THEN "max_res must be greater than or equal to min_res"
    ELSE IF m < 1 THEN "multiple_of must be at least 1"
    ELSE "True"

\* validate_inputs: "True", or the error it returns
validate_inputs(mn, mx, m) ==
    IF mx < mn THEN "max_res must be greater than or equal to min_res"
    ELSE IF m < 1 THEN "multiple_of must be at least 1"
    ELSE IF mn < 1 THEN "min_res must be at least 1"
    ELSE "True"

\* calculate_aspect_ratio
calculate_aspect_ratio(width, height) ==
    IF height = 0 THEN FZero
    ELSE PyRound4(FDiv(FromInt(width), FromInt(height)))

\* round_to_multiple that forgets to multiply the quotient back (a faulty
\* variant)
round_to_multiple_quotient(value, multiple) ==
    IF multiple = 1 THEN value
    ELSE Max(multiple, PyRound(FDiv(FromInt(value), FromInt(multiple))))

\* round_to_multiple
round_to_multiple(value, multiple) ==
    IF multiple = 1 THEN value
    ELSE Max(multiple,
             multiple * PyRound(FDiv(FromInt(value), FromInt(multiple))))

\* The initial scaling with its test inverted: the shortest side is fitted to
\* max_res (a faulty variant)
initial_scaling_inverted(aspect_ratio, mx) ==
    IF FLess(aspect_ratio, FromInt(1))
    THEN <<FromInt(mx), FDiv(FromInt(mx), aspect_ratio)>>
    ELSE <<FMul(FromInt(mx), aspect_ratio), FromInt(mx)>>

\* calculate_optimal_dimensions, lines 191-196: fit the longest side to
\* max_res.  <<new_width, new_height>>
initial_scaling(aspect_ratio, mx) ==
    IF ~FLess(aspect_ratio, FromInt(1))
    THEN <<FromInt(mx), FDiv(FromInt(mx), aspect_ratio)>>
    ELSE <<FMul(FromInt(mx), aspect_ratio), FromInt(mx)>>

\* lines 201-203: scale_factor after the test of new_width
scale_factor_width(new, mn) ==
    IF FLess(new[1], FromInt(mn))
    THEN FMax(FromInt(1), FDiv(FromInt(mn), new[1]))
    ELSE FromInt(1)

\* lines 204-205: scale_factor after the test of new_height
scale_factor_height(new, mn, scale_factor) ==
    IF FLess(new[2], FromInt(mn))
    THEN FMax(scale_factor, FDiv(FromInt(mn), new[2]))
    ELSE scale_factor

\* lines 207-208
scale_up(new, scale_factor) ==
    <<FMul(new[1], scale_factor), FMul(new[2], scale_factor)>>

\* lines 199-208: the constraint mode
apply_constraint(new, mn, mode) ==
    IF mode = MIN_RES
    THEN scale_up(new, scale_factor_height(new, mn,
                                           scale_factor_width(new, mn)))
    ELSE new

\* lines 215-216: round to the multiple
round_dimensions(new, m) ==
    <<round_to_multiple(FInt(new[1]), m), round_to_multiple(FInt(new[2]), m)>>

\* calculate_optimal_dimensions: <<final_width, final_height>>
calculate_optimal_dimensions(width, height, mn, mx, m, mode) ==
    IF height = 0 \/ width = 0 THEN <<0, 0>>
    ELSE round_dimensions(
             apply_constraint(
                 initial_scaling(FDiv(FromInt(width), FromInt(height)), mx),
                 mn, mode),
             m)

\* An image: its shape.  NoImage: no image (nothing was produced).
Shape(w, h) == [width |-> w, height |-> h]
NoImage     == Shape(-1, -1)

\* resize_image: the result has the target shape.  torch's interpolate
\* raises for an empty input and for an output size that is not positive.
resize_raises(image, target_width, target_height) ==
    \/ image.width <= 0 \/ image.height <= 0
    \/ target_width <= 0 \/ target_height <= 0

resize_image(image, target_width, target_height) ==
    Shape(target_width, target_height)

\* len(range(n)[start:stop]): the extent of a slice of an axis of length n
SliceLen(start, stop, n) ==
    LET lo == IF start < 0 THEN Max(start + n, 0) ELSE Min(start, n)
        hi == IF stop < 0 THEN Max(stop + n, 0) ELSE Min(stop, n)
    IN  Max(hi - lo, 0)

\* crop_image whose window ends at the target size instead of left / top
\* plus the target size (a faulty variant)
crop_image_short_window(image, target_width, target_height, position) ==
    LET width_diff  == image.width - target_width
        height_diff == image.height - target_height
        left0  == IF position = LEFT THEN 0
                  ELSE IF position = RIGHT THEN width_diff
                  ELSE width_diff \div 2
        top0   == IF position = TOP THEN 0
                  ELSE IF position = BOTTOM THEN height_diff
                  ELSE height_diff \div 2
        left   == Max(0, Min(left0, width_diff))
        top    == Max(0, Min(top0, height_diff))
    IN  IF width_diff = 0 /\ height_diff = 0
        THEN [image |-> image, left |-> 0, top |-> 0]
        ELSE [image |-> Shape(SliceLen(left, target_width, image.width),
                              SliceLen(top, target_height, image.height)),
              left |-> left, top |-> top]

\* crop_image: the cropped image and the window's offsets in the input
crop_image(image, target_width, target_height, position) ==
    LET width_diff  == image.width - target_width
        height_diff == image.height - target_height
        left0  == IF position = LEFT THEN 0
                  ELSE IF position = RIGHT THEN width_diff
                  ELSE width_diff \div 2
        top0   == IF position = TOP THEN 0
                  ELSE IF position = BOTTOM THEN height_diff
                  ELSE height_diff \div 2
        left   == Max(0, Min(left0, width_diff))
        top    == Max(0, Min(top0, height_diff))
        right  == left + target_width
        bottom == top + target_height
    IN  IF width_diff = 0 /\ height_diff = 0
        THEN [image |-> image, left |-> 0, top |-> 0]
        ELSE [image |-> Shape(SliceLen(left, right, image.width),
                              SliceLen(top, bottom, image.height)),
              left |-> left, top |-> top]

NoCrop == [image |-> NoImage, left |-> 0, top |-> 0]

\* What execute returns (NodeOutput), and NoOutput: it returned nothing.
NodeOutput(resized, original, w, h, final, orig) ==
    [resized_image |-> resized, original_image |-> original,
     width |-> w, height |-> h,
     final_aspect_ratio |-> final, original_aspect_ratio |-> orig]

NoOutput == NodeOutput(NoImage, NoImage, -1, -1, FZero, FZero)

\* execute, line 349: abs((final - original) / original * 100)
aspect_ratio_deviation(final, original) ==
    FMul(FDiv(FAbsDiff(final, original), original), FromInt(100))

\* execute, lines 344-351: is the image resized again and cropped?
crop_needed(crop, final, original) ==
    /\ crop
    /\ FLess(FZero, original)
    /\ FLess(FDiv(FromInt(1), FromInt(10)),
             aspect_ratio_deviation(final, original))

\* execute, lines 353-360: the shape of the resize that precedes the crop
intermediate_dimensions(image, target_width, target_height) ==
    IF FLess(FDiv(FromInt(target_width), FromInt(target_height)),
             FDiv(FromInt(image.width), FromInt(image.height)))
    THEN Shape(target_width,
               FInt(FDiv(FromInt(target_width),
                         FDiv(FromInt(image.width), FromInt(image.height)))))
    ELSE Shape(FInt(FMul(FromInt(target_height),
                         FDiv(FromInt(image.width), FromInt(image.height)))),
               target_height)

(***************************************************************************)
(* The state: the inputs of one use of the node, how far it got, the       *)
(* locals of execute, and what it returned.                                *)
(***************************************************************************)
VARIABLES
    image,              \* the input image (its shape)
    min_res, max_res, multiple_of, constraint_mode,
    crop_as_required, crop_position,
    pc,                 \* "start", "validated", "rejected", "returned",
                        \* "raised", "cropped"
    validation,         \* what validate_inputs returned ("" before the call)
    original_aspect_ratio,
    target,             \* <<target_width, target_height>>
    final_aspect_ratio,
    intermediate,       \* the shape of the resize that precedes the crop,
                        \* the image handed to crop_image (NoImage: none)
    cropped,            \* what crop_image returned (NoCrop: not called)
    output              \* what execute returned (NoOutput: nothing)

inputs == <<image, min_res, max_res, multiple_of, constraint_mode>>

vars == <<image, min_res, max_res, multiple_of, constraint_mode,
          crop_as_required, crop_position, pc, validation,
          original_aspect_ratio, target, final_aspect_ratio,
          intermediate, cropped, output>>

NoTarget == <<-1, -1>>

Nothing ==
    /\ pc = "start"
    /\ validation = ""
    /\ original_aspect_ratio = FZero
    /\ target = NoTarget
    /\ final_aspect_ratio = FZero
    /\ intermediate = NoImage
    /\ cropped = NoCrop
    /\ output = NoOutput

\* The host hands the node an image and the widgets' values.  The schema's
\* defaults stand for the two inputs only execute reads, until it reads them.
Init ==
    /\ image \in [width : 0..MaxDim, height : 0..MaxDim]
    /\ min_res \in 0..MaxRes
    /\ max_res \in 0..MaxRes
    /\ multiple_of \in 0..MaxMultiple
    /\ constraint_mode \in ConstraintMode
    /\ crop_as_required = TRUE
    /\ crop_position = CENTER
    /\ Nothing

\* The host calls validate_inputs before it executes the node.
ValidateInputs ==
    /\ pc = "start"
    /\ validation' = validate_inputs(min_res, max_res, multiple_of)
    /\ pc' = IF validation' = "True" THEN "validated" ELSE "rejected"
    /\ UNCHANGED <<inputs, crop_as_required, crop_position,
                   original_aspect_ratio, target, final_aspect_ratio,
                   intermediate, cropped, output>>

\* execute.  The host executes the node only when validate_inputs returned
\* True.  A resize_image that raises ends the call: nothing is returned.
Execute ==
    /\ pc = "validated"
    /\ original_aspect_ratio' =
           calculate_aspect_ratio(image.width, image.height)
    /\ target' = calculate_optimal_dimensions(image.width, image.height,
                     min_res, max_res, multiple_of, constraint_mode)
    /\ final_aspect_ratio' =
           IF resize_raises(image, target'[1], target'[2]) THEN FZero
           ELSE calculate_aspect_ratio(target'[1], target'[2])
    /\ \E crop \in BOOLEAN :
         /\ crop_as_required' = crop
         /\ intermediate' =
                IF ~resize_raises(image, target'[1], target'[2])
                   /\ crop_needed(crop, final_aspect_ratio',
                                  original_aspect_ratio')
                THEN intermediate_dimensions(image, target'[1], target'[2])
                ELSE NoImage
         /\ \E pos \in CropPosition :
              /\ crop_position' = pos
              /\ IF resize_raises(image, target'[1], target'[2])
                 THEN /\ cropped' = NoCrop
                      /\ output' = NoOutput
                      /\ pc' = "raised"
                 ELSE IF intermediate' = NoImage
                 THEN /\ cropped' = NoCrop
                      /\ output' = NodeOutput(
                             resize_image(image, target'[1], target'[2]),
                             image, target'[1], target'[2],
                             final_aspect_ratio', original_aspect_ratio')
                      /\ pc' = "returned"
                 ELSE IF resize_raises(image, intermediate'.width,
                                       intermediate'.height)
                 THEN /\ cropped' = NoCrop
                      /\ output' = NoOutput
                      /\ pc' = "raised"
                 ELSE /\ cropped' = crop_image(intermediate', target'[1],
                                               target'[2], pos)
                      /\ output' = NodeOutput(cropped'.image, image,
                             target'[1], target'[2],
                             final_aspect_ratio', original_aspect_ratio')
                      /\ pc' = "returned"
    /\ UNCHANGED <<inputs, validation>>

Next == ValidateInputs \/ Execute

Spec == Init /\ [][Next]_vars

(***************************************************************************)
(* crop_image called on its own: any image, any target, any position.      *)
(***************************************************************************)
CropInit ==
    /\ image \in [width : 0..MaxDim, height : 0..MaxDim]
    /\ min_res = 704
    /\ max_res = 1280
    /\ multiple_of = 8
    /\ constraint_mode = MIN_RES
    /\ crop_as_required = TRUE
    /\ crop_position = CENTER
    /\ Nothing

CropImage ==
    /\ pc = "start"
    /\ \E tw \in 0..MaxRes, th \in 0..MaxRes, pos \in CropPosition :
         /\ target' = <<tw, th>>
         /\ crop_position' = pos
         /\ intermediate' = image
         /\ cropped' = crop_image(image, tw, th, pos)
    /\ pc' = "cropped"
    /\ UNCHANGED <<inputs, crop_as_required, validation,
                   original_aspect_ratio, final_aspect_ratio, output>>

CropNext == CropImage

CropSpec == CropInit /\ [][CropNext]_vars

(***************************************************************************)
(* The claims.  After Execute, target is what calculate_optimal_dimensions *)
(* returned for the inputs of the state.                                   *)
(***************************************************************************)
Resolved == pc \in {"returned", "raised"}

NonDegenerate == image.width > 0 /\ image.height > 0

\* C1: in mode "Prioritize Max Resolution (Strict)", for a source of positive
\* width and height and valid constraints, calculate_optimal_dimensions
\* returns a width and a height of at most max_res + (multiple_of - 1).
C1_StrictMaxBound ==
    (Resolved /\ NonDegenerate /\ constraint_mode = MAX_RES_STRICT)
        => /\ target[1] <= max_res + (multiple_of - 1)
           /\ target[2] <= max_res + (multiple_of - 1)

\* C1, its case: a strict-mode result that rounding up took above max_res.
C1_Witness ==
    /\ pc = "returned"
    /\ constraint_mode = MAX_RES_STRICT
    /\ multiple_of > 1
    /\ max_res > multiple_of
    /\ target[1] > max_res

\* C2: in mode "Prioritize Min Resolution", for a source of positive width
\* and height and valid constraints, calculate_optimal_dimensions returns a
\* width and a height of at least min_res - (multiple_of - 1).
C2_MinResBound ==
    (Resolved /\ NonDegenerate /\ constraint_mode = MIN_RES)
        => /\ target[1] >= min_res - (multiple_of - 1)
           /\ target[2] >= min_res - (multiple_of - 1)

\* C3: when multiple_of > 1, the width and the height returned by
\* calculate_optimal_dimensions are divisible by multiple_of, in both modes.
C3_Divisible ==
    (Resolved /\ multiple_of > 1)
        => /\ target[1] % multiple_of = 0
           /\ target[2] % multiple_of = 0

\* C3, its case: multiple_of > 1, a source whose sides are no multiples, and
\* a result above the clamp.
C3_Witness ==
    /\ pc = "returned"
    /\ multiple_of > 1
    /\ image.width % multiple_of # 0
    /\ image.height % multiple_of # 0
    /\ target[1] > multiple_of
    /\ target[2] > multiple_of

\* C4: idempotence: for a source whose width and height are between min_res
\* and max_res and multiples of multiple_of, calculate_optimal_dimensions
\* returns exactly the source's width and height, in both modes.
C4_Idempotent ==
    (/\ Resolved
     /\ min_res <= image.width /\ image.width <= max_res
     /\ min_res <= image.height /\ image.height <= max_res
     /\ image.width % multiple_of = 0
     /\ image.height % multiple_of = 0)
        => target = <<image.width, image.height>>

\* C5: execute with crop_as_required = true, on an image of positive width
\* and height with valid constraints, returns a resized_image of exactly the
\* returned width and height, for every crop_position.
C5_ExactTargetSize ==
    (pc = "returned" /\ crop_as_required /\ NonDegenerate)
        => output.resized_image = Shape(output.width, output.height)

\* C6: for an image of width W' and height H' and a target (W, H) with
\* W' >= W >= 1 and H' >= H >= 1, crop_image returns exactly W x H for every
\* position, the left offset in 0..(W' - W) and the top offset in 0..(H' - H).
C6_CropExact ==
    (/\ pc = "cropped"
     /\ intermediate.width >= target[1] /\ target[1] >= 1
     /\ intermediate.height >= target[2] /\ target[2] >= 1)
        => /\ cropped.image = Shape(target[1], target[2])
           /\ cropped.left \in 0..(intermediate.width - target[1])
           /\ cropped.top \in 0..(intermediate.height - target[2])

\* C6, its case: a crop anchored right that cuts both axes.
C6_Witness ==
    /\ pc = "cropped"
    /\ crop_position = RIGHT
    /\ target[1] >= 1 /\ target[2] >= 1
    /\ intermediate.width > target[1]
    /\ intermediate.height > target[2] + 1
    /\ cropped.left = intermediate.width - target[1]
    /\ cropped.top > 0

\* C7: validate_inputs returns an error exactly when max_res < min_res or
\* multiple_of < 1 or min_res < 1, and True otherwise; after an error no
\* dimensions and no image are produced.
C7_Validation ==
    (pc # "start")
        => /\ (validation # "True")
                <=> (max_res < min_res \/ multiple_of < 1 \/ min_res < 1)
           /\ (validation # "True")
                => /\ pc = "rejected"
                   /\ target = NoTarget
                   /\ intermediate = NoImage
                   /\ cropped = NoCrop
                   /\ output = NoOutput

\* C7, its case: max_res below min_res, everything else valid, is rejected.
C7_Witness ==
    /\ pc = "rejected"
    /\ max_res < min_res
    /\ max_res >= 1
    /\ multiple_of >= 1
    /\ NonDegenerate

\* C8: for a source of positive width and height and valid constraints
\* (multiple_of = 1 included), calculate_optimal_dimensions returns a width
\* and a height above 0, in both modes.
C8_Positive ==
    (Resolved /\ NonDegenerate) => (target[1] > 0 /\ target[2] > 0)

\* C9: on execute's resize-then-crop path the image handed to crop_image is
\* at least as wide and as high as the target.
C9_IntermediateCovers ==
    (pc = "returned" /\ cropped # NoCrop)
        => /\ intermediate.width >= target[1]
           /\ intermediate.height >= target[2]

\* Is r the multiple of m nearest to the float v (a tie may go either way),
\* or m itself when m > 1 and the nearest multiple is 0?  twice is 2 * v.
NearestMultiple(r, twice, m) ==
    \/ /\ ~FLess(twice, FromInt(Max(0, 2 * r - m)))
       /\ ~FLess(FromInt(2 * r + m), twice)
    \/ (m > 1 /\ r = m /\ FLess(twice, FromInt(m)))

NearestMultiples(new, m) ==
    /\ NearestMultiple(target[1], FMul(new[1], FromInt(2)), m)
    /\ NearestMultiple(target[2], FMul(new[2], FromInt(2)), m)

\* C10: each dimension calculate_optimal_dimensions returns is the multiple
\* of multiple_of nearest to the fractional value its scaling steps computed
\* (clamped to multiple_of when multiple_of > 1).
C10_NearestMultiple ==
    (Resolved /\ NonDegenerate)
        => NearestMultiples(
               apply_constraint(
                   initial_scaling(FDiv(FromInt(image.width),
                                        FromInt(image.height)), max_res),
                   min_res, constraint_mode),
               multiple_of)

====
